---- MODULE Spec2Model ----
(***************************************************************************)
(* A model of generateTrainingSet/utils/utils.py: the path gathering and   *)
(* filename check, mask binarization, image warping, noise injection and   *)
(* the persistence of samples to the on-disk dataset.                      *)
(*                                                                         *)
(* Strings the code splits, sorts or pads are sequences of one-character   *)
(* strings; a grid (image, mask, field) is a function from pixel           *)
(* coordinates <<x, y>> to its values.                                     *)
(***************************************************************************)
EXTENDS Integers, Sequences, FiniteSets, TLC

VARIABLES
    args,        \* the arguments of the function under study
    ret,         \* what it returned or raised, once called
    entries,     \* gatherPaths: the names of the directory's direct entries
    dirs,        \* the directories that exist under (and including) path2save
    files,       \* the files on disk, [dir |-> subdirectory, name |-> file name]
    COUNT,       \* the caller's sample counter
    nSaves,      \* the number of samples the caller saved by threading COUNT
    visualized,  \* the indices visualizeData was called with and completed
    lastCall,    \* "none" | "saveData" | "visualizeData"
    lastIdx,     \* the index the last call received
    lastError,   \* the exception the last call raised ("none": it returned)
    lastStep,    \* the first write of the last saveData call that failed (0: none)
    pc           \* interleaved saves: each invocation's position in saveData

vars == <<args, ret, entries, dirs, files, COUNT, nSaves, visualized,
          lastCall, lastIdx, lastError, lastStep, pc>>

pureVars == <<args, ret, entries>>
diskVars == <<dirs, files>>
callVars == <<COUNT, nSaves, visualized, lastCall, lastIdx, lastError, lastStep>>
procVars == <<pc>>

(***************************************************************************)
(* Bounds of the model.                                                    *)
(***************************************************************************)
MaxSaves == 11      \* samples a threaded run saves (indices reach two digits)
MaxIndex == 1       \* largest index of an unthreaded call
MaxNameLen == 2     \* characters of a directory entry's name
MaxEntries == 3     \* entries of a directory
MaxCalls == 2       \* gatherPaths calls on one directory
MaxList == 2        \* paths of a list handed to checkImageMaskFilesNames
Width == 2          \* columns of a grid
Height == 2         \* rows of a grid
MaxOffset == 2      \* largest magnitude of a noise sample
MaxDisp == 1        \* largest magnitude of a displacement component, in pixels

(***************************************************************************)
(* str(COUNT).zfill(4)                                                     *)
(***************************************************************************)
DigitChar == <<"0", "1", "2", "3", "4", "5", "6", "7", "8", "9">>

RECURSIVE str(_)
str(n) == IF n < 10 THEN <<DigitChar[n + 1]>>
          ELSE str(n \div 10) \o <<DigitChar[(n % 10) + 1]>>

RECURSIVE zfill(_, _)
zfill(s, width) == IF Len(s) >= width THEN s ELSE zfill(<<"0">> \o s, width)

PadWidth == 4

COUNT_str(n) == zfill(str(n), PadWidth)

(***************************************************************************)
(* The directories.  A directory is the sequence of its path segments      *)
(* below the caller's working directory; path2save is <<"root">>.          *)
(***************************************************************************)
path2save == <<"root">>
imagePath == path2save \o <<"images">>
dispPath == path2save \o <<"displacements">>
strainPath == path2save \o <<"strains">>
visualizePath == path2save \o <<"visualize">>

AllDirs == {path2save, imagePath, dispPath, strainPath, visualizePath}

Prefixes(p) == {SubSeq(p, 1, k) : k \in 1..Len(p)}

\* os.path.exists
exists(p, d) == p \in d

\* os.makedirs: creates the leaf and every missing parent; the leaf must not exist.
makedirs(p, d) ==
    IF p \in d THEN [err |-> "FileExistsError", dirs |-> d]
    ELSE [err |-> "none", dirs |-> d \cup Prefixes(p)]

ensureDirUnguarded(p, d) == makedirs(p, d)

\* if not os.path.exists(p): os.makedirs(p)
ensureDir(p, d) ==
    IF ~exists(p, d) THEN makedirs(p, d) ELSE [err |-> "none", dirs |-> d]

\* The four guarded creations of saveData, in order, stopping at the first error.
RECURSIVE ensureAll(_, _)
ensureAll(ps, d) ==
    IF ps = <<>> THEN [err |-> "none", dirs |-> d]
    ELSE LET r == ensureDir(Head(ps), d)
         IN  IF r.err # "none" THEN r ELSE ensureAll(Tail(ps), r.dirs)

saveDirs == <<path2save, imagePath, dispPath, strainPath>>

(***************************************************************************)
(* The seven writes of saveData, in the order of the code.  arr is the     *)
(* argument written and chan the channel of it the write indexes           *)
(* (displacement_field[:, :, chan], strain[:, :, chan]).                   *)
(***************************************************************************)
saveWritesStrainFirst ==
    << [dir |-> "images", suffix |-> "_im1.png", arr |-> "img1", chan |-> 0],
       [dir |-> "images", suffix |-> "_im2.png", arr |-> "img2", chan |-> 0],
       [dir |-> "strains", suffix |-> "_strain_xx.npy", arr |-> "strain", chan |-> 0],
       [dir |-> "strains", suffix |-> "_strain_yy.npy", arr |-> "strain", chan |-> 1],
       [dir |-> "strains", suffix |-> "_strain_xy.npy", arr |-> "strain", chan |-> 2],
       [dir |-> "displacements", suffix |-> "_displacement_X.npy",
        arr |-> "displacement_field", chan |-> 0],
       [dir |-> "displacements", suffix |-> "_displacement_Y.npy",
        arr |-> "displacement_field", chan |-> 1] >>

saveWrites ==
    << [dir |-> "images", suffix |-> "_im1.png", arr |-> "img1", chan |-> 0],
       [dir |-> "images", suffix |-> "_im2.png", arr |-> "img2", chan |-> 0],
       [dir |-> "displacements", suffix |-> "_displacement_X.npy",
        arr |-> "displacement_field", chan |-> 0],
       [dir |-> "displacements", suffix |-> "_displacement_Y.npy",
        arr |-> "displacement_field", chan |-> 1],
       [dir |-> "strains", suffix |-> "_strain_xx.npy", arr |-> "strain", chan |-> 0],
       [dir |-> "strains", suffix |-> "_strain_yy.npy", arr |-> "strain", chan |-> 1],
       [dir |-> "strains", suffix |-> "_strain_xy.npy", arr |-> "strain", chan |-> 2] >>

\* The file a write produces for index idx: os.path.join(dir, COUNT_str + suffix).
fileOf(w, idx) == [dir |-> w.dir, name |-> COUNT_str(idx) \o <<w.suffix>>]

(***************************************************************************)
(* What a call is made with: img1 and img2 are "array" or "None", the      *)
(* displacement field has dch channels and the strain field sch channels,  *)
(* and unwritable names the subdirectories in which the filesystem refuses *)
(* to create a file.                                                       *)
(***************************************************************************)
WellFormed ==
    [img1 |-> "array", img2 |-> "array", dch |-> 2, sch |-> 3, unwritable |-> {}]

\* What write w does: "written"; or, for cv2.imwrite, the exception it raises on
\* an empty image or the False it returns when the file cannot be written; or,
\* for np.save, the exception of the indexing expression (evaluated before the
\* call) or of the file that cannot be opened.
outcome(w, call) ==
    IF w.arr \in {"img1", "img2"}
    THEN IF call[w.arr] = "None" THEN "cv2.error"
         ELSE IF w.dir \in call.unwritable THEN "False"
         ELSE "written"
    ELSE IF w.chan >= (IF w.arr = "strain" THEN call.sch ELSE call.dch) THEN "IndexError"
         ELSE IF w.dir \in call.unwritable THEN "OSError"
         ELSE "written"

\* Writes k, k+1, ... in order.  The value cv2.imwrite returns is not looked at;
\* an exception ends the call.  failed is the first write that wrote no file.
RECURSIVE runWrites(_, _, _, _, _)
runWrites(k, idx, call, f, failed) ==
    IF k > Len(saveWrites) THEN [err |-> "none", step |-> failed, files |-> f]
    ELSE LET o == outcome(saveWrites[k], call)
             first == IF failed = 0 THEN k ELSE failed
         IN  IF o = "written"
             THEN runWrites(k + 1, idx, call, f \cup {fileOf(saveWrites[k], idx)}, failed)
             ELSE IF o = "False" THEN runWrites(k + 1, idx, call, f, first)
             ELSE [err |-> o, step |-> first, files |-> f]

saveDataNoIncrement(idx, call, d, f) ==
    LET m == ensureAll(saveDirs, d)
        w == runWrites(1, idx, call, f, 0)
    IN  [err |-> w.err, step |-> w.step, dirs |-> m.dirs, files |-> w.files,
         ret |-> <<idx>>]

\* saveData(img1, img2, displacement_field, strain, path2save, COUNT) on the disk
\* <<d, f>>; ret is <<COUNT + 1>>, or <<>> when the call raised.
saveData(idx, call, d, f) ==
    LET m == ensureAll(saveDirs, d)
    IN  IF m.err # "none"
        THEN [err |-> m.err, step |-> 0, dirs |-> m.dirs, files |-> f, ret |-> <<>>]
        ELSE LET w == runWrites(1, idx, call, f, 0)
             IN  [err |-> w.err, step |-> w.step, dirs |-> m.dirs, files |-> w.files,
                  ret |-> IF w.err = "none" THEN <<idx + 1>> ELSE <<>>]

\* visualizeData(...): the directory, the panels in the order drawn (img1, img2,
\* the two displacement channels, the three strain channels), then the figure.
visualizeData(idx, call, d, f) ==
    LET m == ensureDir(visualizePath, d)
        err == IF m.err # "none" THEN m.err
               ELSE IF call.img1 = "None" \/ call.img2 = "None" THEN "TypeError"
               ELSE IF call.dch < 2 \/ call.sch < 3 THEN "IndexError"
               ELSE IF "visualize" \in call.unwritable THEN "OSError"
               ELSE "none"
    IN  [err |-> err, dirs |-> m.dirs,
         files |-> IF err # "none" THEN f
                   ELSE f \cup {[dir |-> "visualize",
                                 name |-> COUNT_str(idx) \o <<"_visualization.png">>]}]

(***************************************************************************)
(* The calls, as the caller sees them.                                     *)
(***************************************************************************)
\* COUNT = saveData(img1, img2, displacement_field, strain, path2save, idx)
SaveData(idx, call) ==
    LET r == saveData(idx, call, dirs, files)
    IN  /\ dirs' = r.dirs
        /\ files' = r.files
        /\ COUNT' = IF r.ret # <<>> THEN r.ret[1] ELSE COUNT
        /\ lastCall' = "saveData"
        /\ lastIdx' = idx
        /\ lastError' = r.err
        /\ lastStep' = r.step
        /\ UNCHANGED <<visualized, pureVars, procVars>>

VisualizeData(idx, call) ==
    LET r == visualizeData(idx, call, dirs, files)
    IN  /\ dirs' = r.dirs
        /\ files' = r.files
        /\ visualized' = IF r.err = "none" THEN visualized \cup {idx} ELSE visualized
        /\ lastCall' = "visualizeData"
        /\ lastIdx' = idx
        /\ lastError' = r.err
        /\ lastStep' = 0
        /\ UNCHANGED <<COUNT, nSaves, pureVars, procVars>>

NoPure == /\ args = "none" /\ ret = "none" /\ entries = {}
NoProcs == pc = <<>>
NoCalls ==
    /\ COUNT = 0 /\ nSaves = 0 /\ visualized = {}
    /\ lastCall = "none" /\ lastIdx = 0 /\ lastError = "none" /\ lastStep = 0
NoDisk == /\ dirs = {} /\ files = {}

(***************************************************************************)
(* SpecThread: a caller that saves sample after sample with well-formed    *)
(* arrays on a filesystem that accepts every write, passing each call the  *)
(* index the previous one returned, and may render the figure of the       *)
(* sample it is about to save.                                             *)
(***************************************************************************)
InitThread ==
    /\ NoPure /\ NoProcs /\ NoCalls
    /\ dirs \in {{}, {path2save}}
    /\ files = {}

SaveNext ==
    /\ nSaves < MaxSaves
    /\ SaveData(COUNT, WellFormed)
    /\ nSaves' = nSaves + 1

VisualizeNext ==
    /\ nSaves < MaxSaves
    /\ COUNT \notin visualized
    /\ VisualizeData(COUNT, WellFormed)

NextThread == SaveNext \/ VisualizeNext

SpecThread == InitThread /\ [][NextThread]_vars

(***************************************************************************)
(* SpecSave: any sequential series of saveData calls on one root, with any *)
(* index, with images that may be None, arrays of any number of channels   *)
(* and subdirectories that may refuse a write, from any set of the         *)
(* directories already existing.  A caller that catches the exception of a *)
(* failed call may go on calling.                                          *)
(***************************************************************************)
Calls ==
    {[img1 |-> i[1], img2 |-> i[2], dch |-> d, sch |-> c, unwritable |-> u] :
        i \in {<<"array", "array">>, <<"None", "array">>, <<"array", "None">>},
        d \in 0..2, c \in 0..3, u \in {{}, {"images"}, {"strains"}}}

\* A set of directories a filesystem can hold: with a directory, its parents.
Closed(d) == \A p \in d : Prefixes(p) \subseteq d

InitSave ==
    /\ NoPure /\ NoProcs /\ NoCalls
    /\ dirs \in {d \in SUBSET AllDirs : Closed(d)}
    /\ files = {}

SaveAny ==
    /\ \E idx \in 0..MaxIndex, call \in Calls : SaveData(idx, call)
    /\ UNCHANGED nSaves

NextSave == SaveAny

SpecSave == InitSave /\ [][NextSave]_vars

(***************************************************************************)
(* SpecDirs: any sequential series of saveData and visualizeData calls on  *)
(* one root, with any index, from any set of the directories already       *)
(* existing; the arrays are well formed or lack the displacement channels, *)
(* and images and visualize may refuse a write.                            *)
(***************************************************************************)
DirsCalls ==
    {WellFormed, [WellFormed EXCEPT !.dch = 0],
     [WellFormed EXCEPT !.unwritable = {"images", "visualize"}]}

SaveAgain ==
    /\ \E idx \in 0..MaxIndex, call \in DirsCalls : SaveData(idx, call)
    /\ UNCHANGED nSaves

VisualizeAny ==
    \E idx \in 0..MaxIndex, call \in DirsCalls : VisualizeData(idx, call)

NextDirs == SaveAgain \/ VisualizeAny

SpecDirs == InitSave /\ [][NextDirs]_vars

(***************************************************************************)
(* The claims about persistence.                                           *)
(***************************************************************************)
\* The index i < 10000 written with four decimal digits.
Padded4(i) == << DigitChar[((i \div 1000) % 10) + 1], DigitChar[((i \div 100) % 10) + 1],
                 DigitChar[((i \div 10) % 10) + 1], DigitChar[(i % 10) + 1] >>

FilesIn(d) == {f \in files : f.dir = d}

Named(d, suffixes, n) ==
    {[dir |-> d, name |-> Padded4(i) \o <<s>>] : i \in 0..(n - 1), s \in suffixes}

SavedKinds ==
    /\ FilesIn("images") = Named("images", {"_im1.png", "_im2.png"}, nSaves)
    /\ FilesIn("displacements") =
           Named("displacements", {"_displacement_X.npy", "_displacement_Y.npy"}, nSaves)
    /\ FilesIn("strains") =
           Named("strains", {"_strain_xx.npy", "_strain_yy.npy", "_strain_xy.npy"}, nSaves)

\* C1 as stated: after N threaded saves from index 0 the files of indices
\* 0..N-1 are in all four subdirectories, visualize included, none skipped or
\* repeated, and the counter returned by the last save is N.
C1_AllFourSubdirectories ==
    /\ SavedKinds
    /\ FilesIn("visualize") = Named("visualize", {"_visualization.png"}, nSaves)
    /\ COUNT = nSaves

\* C1 as amended: after N threaded saves from index 0 the files of indices
\* 0..N-1, and no others, are in images, displacements and strains, and the
\* counter returned by the last save is N; visualize holds the figure of index
\* i exactly when visualizeData was called with i.
C1_SavedIndices ==
    /\ SavedKinds
    /\ FilesIn("visualize") =
           {[dir |-> "visualize", name |-> Padded4(i) \o <<"_visualization.png">>] :
                i \in visualized}
    /\ COUNT = nSaves
    /\ Cardinality(files) = 7 * nSaves + Cardinality(visualized)

\* Saves up to a two-digit index, some visualized and some not.
C1_Witness ==
    /\ nSaves = MaxSaves
    /\ visualized # {}
    /\ \E i \in 0..(nSaves - 1) : i \notin visualized

\* C8: no call fails because a directory already exists, a directory that
\* exists is never removed, after a saveData call the root, images,
\* displacements and strains exist, and after a visualizeData call visualize
\* exists.
C8_DirectoriesIdempotent ==
    /\ [](/\ lastError # "FileExistsError"
          /\ lastCall = "saveData" =>
                 {path2save, imagePath, dispPath, strainPath} \subseteq dirs
          /\ lastCall = "visualizeData" => {path2save, visualizePath} \subseteq dirs)
    /\ [][dirs \subseteq dirs']_vars

\* A call that repeated an index already saved in full, and raised at its third write.
C8_Witness ==
    /\ lastCall = "saveData"
    /\ lastStep = 3
    /\ [dir |-> "strains", name |-> Padded4(lastIdx) \o <<"_strain_xy.npy">>] \in files
    /\ visualizePath \in dirs

ExpectedWrite(k, i) ==
    CASE k = 1 -> [dir |-> "images", name |-> Padded4(i) \o <<"_im1.png">>]
      [] k = 2 -> [dir |-> "images", name |-> Padded4(i) \o <<"_im2.png">>]
      [] k = 3 -> [dir |-> "displacements", name |-> Padded4(i) \o <<"_displacement_X.npy">>]
      [] k = 4 -> [dir |-> "displacements", name |-> Padded4(i) \o <<"_displacement_Y.npy">>]
      [] k = 5 -> [dir |-> "strains", name |-> Padded4(i) \o <<"_strain_xx.npy">>]
      [] k = 6 -> [dir |-> "strains", name |-> Padded4(i) \o <<"_strain_yy.npy">>]
      [] k = 7 -> [dir |-> "strains", name |-> Padded4(i) \o <<"_strain_xy.npy">>]

\* C9: the seven files are written in the order im1, im2, displacement_X,
\* displacement_Y, strain_xx, strain_yy, strain_xy; a saveData call whose k-th
\* write is the first to fail aborts without returning a next index, adds to
\* the disk exactly the files of writes 1..k-1 of its index, removes nothing
\* and writes no file of a later step; a call none of whose writes fails adds
\* all seven and returns index + 1.
C9_PartialSaveNoRollback ==
    [][lastCall' = "saveData" =>
          LET k == lastStep'
              n == IF k = 0 THEN 7 ELSE k - 1
          IN  /\ files' = files \cup {ExpectedWrite(j, lastIdx') : j \in 1..n}
              /\ k # 0 => lastError' # "none" /\ COUNT' = COUNT
              /\ k = 0 => lastError' = "none" /\ COUNT' = lastIdx' + 1]_vars

(***************************************************************************)
(* SpecConc: two saveData invocations on one root, with well-formed arrays *)
(* and the indices 0 and 1, whose steps interleave: each os.path.exists    *)
(* test, each os.makedirs and each file write is one step.                 *)
(***************************************************************************)
Procs == {0, 1}

At(kind, n) == [at |-> kind, n |-> n]

\* The position after the n-th directory is dealt with.
afterDir(n) == IF n < Len(saveDirs) THEN At("test", n + 1) ELSE At("write", 1)

InitConc ==
    /\ NoPure /\ NoCalls /\ NoDisk
    /\ pc = [p \in Procs |-> At("test", 1)]

\* if not os.path.exists(dir):
TestDir(p) ==
    /\ pc[p].at = "test"
    /\ pc' = [pc EXCEPT ![p] = IF exists(saveDirs[pc[p].n], dirs)
                               THEN afterDir(pc[p].n) ELSE At("make", pc[p].n)]
    /\ UNCHANGED <<dirs, files, callVars, pureVars>>

\*     os.makedirs(dir)
MakeDir(p) ==
    /\ pc[p].at = "make"
    /\ LET r == makedirs(saveDirs[pc[p].n], dirs)
       IN  /\ dirs' = r.dirs
           /\ pc' = [pc EXCEPT ![p] = IF r.err = "none" THEN afterDir(pc[p].n)
                                      ELSE At("raised", pc[p].n)]
    /\ UNCHANGED <<files, callVars, pureVars>>

\* cv2.imwrite / np.save of the n-th file; after the seventh, return COUNT + 1.
WriteFile(p) ==
    /\ pc[p].at = "write"
    /\ files' = files \cup {fileOf(saveWrites[pc[p].n], p)}
    /\ pc' = [pc EXCEPT ![p] = IF pc[p].n < Len(saveWrites) THEN At("write", pc[p].n + 1)
                               ELSE At("returned", p + 1)]
    /\ UNCHANGED <<dirs, callVars, pureVars>>

NextConc == \E p \in Procs : TestDir(p) \/ MakeDir(p) \/ WriteFile(p)

SpecConc == InitConc /\ [][NextConc]_vars

\* C10: two saveData invocations with distinct indices whose steps interleave,
\* from a state where no directory exists, both complete without error, and
\* afterwards all seven files of each index are present.
C10_InterleavedSavesComplete ==
    /\ \A p \in Procs : pc[p].at # "raised"
    /\ (\A p \in Procs : pc[p].at = "returned") =>
           \A p \in Procs : \A k \in 1..7 : ExpectedWrite(k, p) \in files

(***************************************************************************)
(* Strings: the characters of the model and their code points, by which    *)
(* Python compares strings.                                                *)
(***************************************************************************)
NameChars == {".", "a", "b"}

ord(c) ==
    CASE c = "." -> 46 [] c = "/" -> 47 [] c = "a" -> 97 [] c = "b" -> 98
      [] c = "i" -> 105 [] c = "m" -> 109

\* s < t for Python strings.
RECURSIVE strLess(_, _)
strLess(s, t) ==
    IF t = <<>> THEN FALSE
    ELSE IF s = <<>> THEN TRUE
    ELSE IF ord(Head(s)) # ord(Head(t)) THEN ord(Head(s)) < ord(Head(t))
    ELSE strLess(Tail(s), Tail(t))

RECURSIVE StringsUpTo(_)
StringsUpTo(n) ==
    IF n = 0 THEN {<<>>}
    ELSE LET S == StringsUpTo(n - 1)
         IN  S \cup {<<c>> \o t : c \in NameChars, t \in {u \in S : Len(u) = n - 1}}

\* The names a directory entry can have: not empty, not "." and not "..".
EntryNames == StringsUpTo(MaxNameLen) \ {<<>>, <<".">>, <<".", ".">>}

RECURSIVE SetsUpTo(_)
SetsUpTo(n) ==
    IF n = 0 THEN {{}}
    ELSE LET S == SetsUpTo(n - 1)
         IN  S \cup {d \cup {e} : d \in {c \in S : Cardinality(c) = n - 1}, e \in EntryNames}

\* The orders in which the operating system can list the set d.
RECURSIVE Listings(_)
Listings(d) ==
    IF d = {} THEN {<<>>}
    ELSE UNION {{<<e>> \o l : l \in Listings(d \ {e})} : e \in d}

(***************************************************************************)
(* gatherPaths                                                             *)
(***************************************************************************)
\* glob.glob(path + '/*') on a directory listed in the order of listing: the
\* pattern * matches no name that begins with a dot.
RECURSIVE glob(_, _)
glob(path, listing) ==
    IF listing = <<>> THEN <<>>
    ELSE IF Head(listing)[1] = "." THEN glob(path, Tail(listing))
    ELSE <<path \o <<"/">> \o Head(listing)>> \o glob(path, Tail(listing))

\* The place of string s in the ascending list l.
RECURSIVE insert(_, _)
insert(s, l) ==
    IF l = <<>> THEN <<s>>
    ELSE IF strLess(Head(l), s) THEN <<Head(l)>> \o insert(s, Tail(l))
    ELSE <<s>> \o l

unsorted(l) == l

\* list.sort()
RECURSIVE sort(_)
sort(l) == IF l = <<>> THEN <<>> ELSE insert(Head(l), sort(Tail(l)))

gatherPaths(path, listing) == sort(glob(path, listing))

InitGather ==
    /\ NoProcs /\ NoCalls /\ NoDisk
    /\ args = [path |-> <<"i">>]
    /\ entries \in SetsUpTo(MaxEntries)
    /\ ret = <<>>

\* One call; ret collects what the calls returned, in order.
GatherPaths ==
    /\ Len(ret) < MaxCalls
    /\ \E listing \in Listings(entries) :
           ret' = Append(ret, gatherPaths(args.path, listing))
    /\ UNCHANGED <<args, entries, diskVars, callVars, procVars>>

NextGather == GatherPaths

SpecGather == InitGather /\ [][NextGather]_vars

\* s comes before t in lexicographic order of code points.
LexBefore(s, t) ==
    \E k \in 1..(Len(t)) :
        /\ k <= Len(s) + 1
        /\ \A j \in 1..(k - 1) : s[j] = t[j]
        /\ k = Len(s) + 1 \/ ord(s[k]) < ord(t[k])

Ascending(l) == \A i \in 1..Len(l) : \A j \in 1..Len(l) : i < j => LexBefore(l[i], l[j])

Elements(l) == {l[i] : i \in 1..Len(l)}

\* C7 as stated: every call returns all direct entries of the directory,
\* whatever their names, each once, in ascending lexicographic order, and two
\* calls on the unchanged directory return the same list.
C7_AllEntriesSorted ==
    \A k \in 1..Len(ret) :
        /\ Elements(ret[k]) = {args.path \o <<"/">> \o e : e \in entries}
        /\ Ascending(ret[k])
        /\ ret[k] = ret[1]

\* C7 as amended: every call returns the direct entries whose name does not
\* begin with a dot, each once and none of them omitted, in ascending
\* lexicographic order, and two calls on the unchanged directory return the
\* same list.
C7_VisibleEntriesSorted ==
    \A k \in 1..Len(ret) :
        /\ Elements(ret[k]) = {args.path \o <<"/">> \o e : e \in {n \in entries : n[1] # "."}}
        /\ Ascending(ret[k])
        /\ ret[k] = ret[1]

C7_Witness ==
    /\ Len(ret) = 2
    /\ Len(ret[2]) >= 2
    /\ \E e \in entries : e[1] = "."

(***************************************************************************)
(* checkImageMaskFilesNames                                                *)
(***************************************************************************)
\* str.split(sep): the pieces of s between the occurrences of sep.
RECURSIVE split(_, _)
split(s, sep) ==
    IF \A k \in 1..Len(s) : s[k] # sep THEN <<s>>
    ELSE LET k == CHOOSE i \in 1..Len(s) : s[i] = sep /\ \A j \in 1..(i - 1) : s[j] # sep
         IN  <<SubSeq(s, 1, k - 1)>> \o split(SubSeq(s, k + 1, Len(s)), sep)

last(l) == l[Len(l)]

\* path.split('/')[-1].split('.')[0]
stem(path) == split(last(split(path, "/")), ".")[1]

\* The loop from index i on: "None" when it ends, else the exception raised.
RECURSIVE checkFrom(_, _, _)
checkFrom(i, path2images, path2masks) ==
    IF i > Len(path2images) THEN "None"
    ELSE IF i > Len(path2masks) THEN "IndexError"
    ELSE IF stem(path2images[i]) # stem(path2masks[i]) THEN "AssertionError"
    ELSE checkFrom(i + 1, path2images, path2masks)

checkImageMaskFilesNames(path2images, path2masks) == checkFrom(1, path2images, path2masks)

RECURSIVE ListsUpTo(_, _)
ListsUpTo(S, n) ==
    IF n = 0 THEN {<<>>}
    ELSE LET L == ListsUpTo(S, n - 1)
         IN  L \cup {Append(l, e) : l \in {m \in L : Len(m) = n - 1}, e \in S}

imageDir == <<"i">>
maskDir == <<"m", ".", "m">>

InitCheck ==
    /\ NoProcs /\ NoCalls /\ NoDisk
    /\ entries = {}
    /\ \E a \in ListsUpTo({imageDir \o <<"/">> \o e : e \in EntryNames}, MaxList),
          b \in ListsUpTo({maskDir \o <<"/">> \o e : e \in EntryNames}, MaxList) :
           args = [path2images |-> a, path2masks |-> b]
    /\ ret = "none"

CheckImageMaskFilesNames ==
    /\ ret = "none"
    /\ ret' = checkImageMaskFilesNames(args.path2images, args.path2masks)
    /\ UNCHANGED <<args, entries, diskVars, callVars, procVars>>

NextCheck == CheckImageMaskFilesNames

SpecCheck == InitCheck /\ [][NextCheck]_vars

\* The final path segment of p.
FinalSegment(p) ==
    LET slashes == {k \in 1..Len(p) : p[k] = "/"}
    IN  IF slashes = {} THEN p
        ELSE SubSeq(p, (CHOOSE k \in slashes : \A j \in slashes : j <= k) + 1, Len(p))

\* The final path segment of p minus its extension (its last dot and what follows).
FileStem(p) ==
    LET seg == FinalSegment(p)
        dots == {k \in 1..Len(seg) : seg[k] = "."}
    IN  IF dots = {} THEN seg
        ELSE SubSeq(seg, 1, (CHOOSE k \in dots : \A j \in dots : j <= k) - 1)

SameStems(a, b) ==
    /\ Len(a) = Len(b)
    /\ \A i \in 1..Len(a) : FileStem(a[i]) = FileStem(b[i])

\* C2: the check fails for every pair of lists that differ in a filename stem
\* at some position, lists of different lengths included, and returns without
\* error for every pair of lists with the same stems in the same order.
C2_CheckFailsOnAnyDifference ==
    ret # "none" =>
        IF SameStems(args.path2images, args.path2masks)
        THEN ret = "None"
        ELSE ret \in {"AssertionError", "IndexError"}

(***************************************************************************)
(* Grids.  The grids a specification draws its inputs from are those that  *)
(* hold one value at one pixel and another value at every other pixel (the *)
(* constant grids among them): every function of the module treats each    *)
(* output pixel on its own.                                                *)
(***************************************************************************)
Pixels == (0..(Width - 1)) \X (0..(Height - 1))

Grids(S) == {[p \in Pixels |-> IF p = q THEN v ELSE b] : q \in Pixels, v \in S, b \in S}

\* 8-bit intensities, the ends of the range among them.
GraySamples == {0, 1, 2, 128, 254, 255}

(***************************************************************************)
(* loadImageAndMask                                                        *)
(***************************************************************************)
\* ndarray.astype(np.float32) of an 8-bit array: every value is kept exactly.
astype_float32(a) == [p \in DOMAIN a |-> a[p]]

binarizeAbove127(mask) == [p \in DOMAIN mask |-> IF mask[p] > 127 THEN 1 ELSE mask[p]]

\* mask[mask > 0] = 1
binarize(mask) == [p \in DOMAIN mask |-> IF mask[p] > 0 THEN 1 ELSE mask[p]]

\* None, where an array is expected.
None == <<>>

\* The value of a call not made yet.
Pending == [status |-> "pending"]

\* decodedImage, decodedMask: what cv2.imread returned, None for a file it
\* could not decode.
loadImageAndMask(decodedImage, decodedMask) ==
    IF decodedImage = None \/ decodedMask = None THEN [status |-> "AttributeError"]
    ELSE [status |-> "returned",
          img |-> astype_float32(decodedImage),
          mask |-> binarize(astype_float32(decodedMask))]

InitLoad ==
    /\ NoProcs /\ NoCalls /\ NoDisk
    /\ entries = {}
    /\ \E i \in Grids(GraySamples) \cup {None}, m \in Grids(GraySamples) \cup {None} :
           args = [img |-> i, mask |-> m]
    /\ ret = Pending

LoadImageAndMask ==
    /\ ret = Pending
    /\ ret' = loadImageAndMask(args.img, args.mask)
    /\ UNCHANGED <<args, entries, diskVars, callVars, procVars>>

NextLoad == LoadImageAndMask

SpecLoad == InitLoad /\ [][NextLoad]_vars

\* C5: the returned mask has every value 0 or 1, is 1 at a pixel exactly when
\* the decoded mask is > 0 there, and has the dimensions of the decoded mask;
\* the returned image is the decoded image, unaltered.
C5_MaskBinarized ==
    ret.status = "returned" =>
        /\ DOMAIN ret.mask = DOMAIN args.mask
        /\ \A p \in DOMAIN ret.mask :
               /\ ret.mask[p] \in {0, 1}
               /\ ret.mask[p] = 1 <=> args.mask[p] > 0
        /\ ret.img = args.img

C5_Witness ==
    /\ ret.status = "returned"
    /\ \E p \in Pixels : args.mask[p] = 255 /\ ret.mask[p] = 1
    /\ \E p \in Pixels : args.mask[p] = 0 /\ ret.mask[p] = 0
    /\ \E p \in Pixels : args.img[p] > 1

(***************************************************************************)
(* addNoise                                                                *)
(***************************************************************************)
Offsets == (-MaxOffset)..MaxOffset

\* np.clip(v, lo, hi)
clipLowOnly(v, lo, hi) == IF v < lo THEN lo ELSE v

clip(v, lo, hi) == IF v < lo THEN lo ELSE IF v > hi THEN hi ELSE v

\* addNoise(img, noise) when np.random.normal(0, noise, img.shape) draws the
\* grid drawn: the value returned, and the caller's array after the call
\* (img = img + ... binds a new array to the local name).
addNoise(img, noise, drawn) ==
    IF noise < 0 THEN [status |-> "ValueError", ret |-> None, img |-> img]
    ELSE [status |-> "returned",
          ret |-> [p \in DOMAIN img |-> clip(img[p] + drawn[p], 0, 255)],
          img |-> img]

\* The grids np.random.normal(0, noise, shape) can draw.
Draws(noise) == IF noise = 0 THEN Grids({0}) ELSE Grids(Offsets)

InitNoise ==
    /\ NoProcs /\ NoCalls /\ NoDisk
    /\ entries = {}
    /\ \E i \in Grids(GraySamples), n \in {-1, 0, 1} :
           args = [img |-> i, noise |-> n, passed |-> i]
    /\ ret = Pending

\* args.img is the caller's array, args.passed its value when it was passed.
AddNoise ==
    /\ ret = Pending
    /\ \E drawn \in Draws(args.noise) :
           LET r == addNoise(args.img, args.noise, drawn)
           IN  /\ ret' = [status |-> r.status, img |-> r.ret, drawn |-> drawn]
               /\ args' = [args EXCEPT !.img = r.img]
    /\ UNCHANGED <<entries, diskVars, callVars, procVars>>

NextNoise == AddNoise

SpecNoise == InitNoise /\ [][NextNoise]_vars

\* C6: for every standard deviation (>= 0) and every realization of the noise
\* the call returns, and every pixel of the returned image lies in [0, 255]: it
\* is input + offset when that is within the range, 0 when it is below 0 and
\* 255 when it is above 255; the caller's image is not modified.
C6_NoiseClipped ==
    ret.status # "pending" =>
        /\ args.noise >= 0 => ret.status = "returned"
        /\ ret.status = "returned" => \A p \in Pixels :
               LET v == args.passed[p] + ret.drawn[p]
               IN  /\ ret.img[p] >= 0 /\ ret.img[p] <= 255
                   /\ (v >= 0 /\ v <= 255) => ret.img[p] = v
                   /\ v < 0 => ret.img[p] = 0
                   /\ v > 255 => ret.img[p] = 255
        /\ args.img = args.passed

C6_Witness ==
    /\ ret.status = "returned" /\ args.noise > 0
    /\ \E p \in Pixels : args.passed[p] + ret.drawn[p] > 255 /\ ret.img[p] = 255
    /\ \E p \in Pixels : ret.drawn[p] # 0 /\ ret.img[p] = args.passed[p] + ret.drawn[p]

(***************************************************************************)
(* imwarp.  Coordinates and displacements are counted in units of 1/Scale  *)
(* of a pixel, so that a field can displace by a fraction of a pixel; an   *)
(* interpolated intensity is counted in units of 1/Scale^2, the product of *)
(* two interpolation weights.                                              *)
(***************************************************************************)
Scale == 2

\* The pixel of img at column x, row y, under BORDER_CONSTANT with the border
\* value 0 (the defaults of cv2.remap).
fetch(img, x, y) == IF <<x, y>> \in DOMAIN img THEN img[<<x, y>>] ELSE 0

\* cv2.remap(img, map, None, cv2.INTER_LINEAR) at one pixel whose sample location
\* is <<mx, my>>: the four neighbours of the location, weighted.
bilinear(img, mx, my) ==
    LET x0 == mx \div Scale
        y0 == my \div Scale
        fx == mx % Scale
        fy == my % Scale
    IN  (Scale - fx) * (Scale - fy) * fetch(img, x0, y0)
        + fx * (Scale - fy) * fetch(img, x0 + 1, y0)
        + (Scale - fx) * fy * fetch(img, x0, y0 + 1)
        + fx * fy * fetch(img, x0 + 1, y0 + 1)

remap(img, map) == [p \in DOMAIN map |-> bilinear(img, map[p][1], map[p][2])]

samplingMapForward(displacement_field) ==
    [p \in DOMAIN displacement_field |->
        << displacement_field[p][1] + p[1] * Scale,
           displacement_field[p][2] + p[2] * Scale >>]

samplingMapNoGrid(displacement_field) ==
    [p \in DOMAIN displacement_field |->
        << -displacement_field[p][1], -displacement_field[p][2] >>]

\* displacement_field_4_warping: the negated field plus np.arange(w) along x and
\* np.arange(h) along y.
displacement_field_4_warping(displacement_field) ==
    [p \in DOMAIN displacement_field |->
        << -displacement_field[p][1] + p[1] * Scale,
           -displacement_field[p][2] + p[2] * Scale >>]

imwarp(img, displacement_field) ==
    [status |-> "returned",
     img1 |-> img,
     img2 |-> remap(img, displacement_field_4_warping(displacement_field))]

Displacements ==
    ((-MaxDisp * Scale)..(MaxDisp * Scale)) \X ((-MaxDisp * Scale)..(MaxDisp * Scale))

\* The uniform fields, and the fields that displace one pixel only.
Fields ==
    {[p \in Pixels |-> d] : d \in Displacements}
    \cup {[p \in Pixels |-> IF p = q THEN d ELSE <<0, 0>>] : q \in Pixels, d \in Displacements}

WarpSamples == {0, 1, 255}

InitWarp ==
    /\ NoProcs /\ NoCalls /\ NoDisk
    /\ entries = {}
    /\ \E i \in Grids(WarpSamples), f \in Fields :
           args = [img |-> i, displacement_field |-> f]
    /\ ret = Pending

Imwarp ==
    /\ ret = Pending
    /\ ret' = imwarp(args.img, args.displacement_field)
    /\ UNCHANGED <<args, entries, diskVars, callVars, procVars>>

NextWarp == Imwarp

SpecWarp == InitWarp /\ [][NextWarp]_vars

\* The field displaces every pixel by a whole number of pixels.
IntegerValued(f) == \A p \in DOMAIN f : f[p][1] % Scale = 0 /\ f[p][2] % Scale = 0

\* The interpolated intensity i is the intensity v exactly.
Is(i, v) == i = v * Scale * Scale

\* C3: for an integer-valued field, pixel (x, y) of the second output is the
\* input image at (x - dx(x,y), y - dy(x,y)) when that location lies inside the
\* image and 0 when it lies outside; the first output is the input image.
C3_WarpSamplesBackward ==
    (ret.status = "returned" /\ IntegerValued(args.displacement_field)) =>
        /\ ret.img1 = args.img
        /\ \A p \in Pixels :
               LET x == p[1] - (args.displacement_field[p][1] \div Scale)
                   y == p[2] - (args.displacement_field[p][2] \div Scale)
               IN  IF x \in 0..(Width - 1) /\ y \in 0..(Height - 1)
                   THEN Is(ret.img2[p], args.img[<<x, y>>])
                   ELSE Is(ret.img2[p], 0)

\* A field that moves one pixel's sample to another pixel inside the image, of
\* another intensity, and an image with a pixel whose sample falls outside.
C3_Witness ==
    /\ ret.status = "returned"
    /\ IntegerValued(args.displacement_field)
    /\ \E p \in Pixels :
           /\ args.displacement_field[p] # <<0, 0>>
           /\ ~Is(ret.img2[p], args.img[p])
           /\ ~Is(ret.img2[p], 0)
    /\ \E p \in Pixels : args.img[p] # 0 /\ Is(ret.img2[p], 0)

\* C4: a displacement field that is zero at every pixel returns a deformed
\* image equal to the reference image at every pixel, the border included.
C4_ZeroFieldIdentity ==
    (ret.status = "returned" /\ \A p \in Pixels : args.displacement_field[p] = <<0, 0>>) =>
        \A p \in Pixels : Is(ret.img2[p], args.img[p])

C4_Witness ==
    /\ ret.status = "returned"
    /\ \A p \in Pixels : args.displacement_field[p] = <<0, 0>>
    /\ args.img[<<Width - 1, Height - 1>>] = 255
    /\ args.img[<<0, 0>>] = 1
    /\ Is(ret.img2[<<Width - 1, Height - 1>>], 255)

====
